---- MODULE Spec2Model ----
(***************************************************************************)
(* Moment calculator for discrete probability distributions                *)
(* (tools/expected_value_variance.py).                                      *)
(*                                                                         *)
(* A distribution is a Python dict: here a sequence of entries             *)
(* [x |-> outcome, p |-> probability] in insertion order, keys unique.     *)
(* Python numbers are modelled by the real numbers they denote: rationals  *)
(* n/d with arbitrary-precision numerator and denominator, and a * sqrt(r) *)
(* for the results of ** 0.5 (r < 0 gives the imaginary principal root,    *)
(* which is what Python's float ** 0.5 returns for a negative float).      *)
(* Rounding of binary floating point is not modelled.                      *)
(***************************************************************************)
EXTENDS Integers, Sequences, FiniteSets, TLC

VARIABLES distribution, built, ret, outcomes

vars == <<distribution, built, ret, outcomes>>

(***************************************************************************)
(* Arbitrary-precision naturals: little-endian limbs in base BASE, no      *)
(* high zero limb; <<>> is 0.  (Machine integers are 32 bits wide; the     *)
(* program's numbers are not.)                                             *)
(***************************************************************************)
BASE == 100 * 100

Max(a, b) == IF a >= b THEN a ELSE b

Limb(a, k) == IF k >= 1 /\ k <= Len(a) THEN a[k] ELSE 0

RECURSIVE Strip(_)
Strip(a) == IF a = <<>> THEN a
            ELSE IF a[Len(a)] = 0 THEN Strip(SubSeq(a, 1, Len(a) - 1)) ELSE a

\* Carry propagation over raw limbs whose total is >= 0.
RECURSIVE Carry(_, _, _, _)
Carry(raw, k, c, acc) ==
    IF k > Len(raw)
    THEN IF c = 0 THEN acc ELSE Append(acc, c)
    ELSE LET t == raw[k] + c
             q == t \div BASE
             nxt == Append(acc, t - q * BASE)
         IN  IF Len(nxt) = k THEN Carry(raw, k + 1, q, nxt) ELSE <<>>

NNorm(raw) == Strip(Carry(raw, 1, 0, <<>>))

NAdd(a, b) == NNorm([k \in 1..Max(Len(a), Len(b)) |-> Limb(a, k) + Limb(b, k)])

\* a - b for a >= b
NSub(a, b) == NNorm([k \in 1..Max(Len(a), Len(b)) |-> Limb(a, k) - Limb(b, k)])

RECURSIVE ColLo(_, _, _, _)
ColLo(a, b, k, i) ==
    IF i > Len(a) \/ i > k THEN 0
    ELSE (IF k + 1 - i <= Len(b) THEN (a[i] * b[k + 1 - i]) % BASE ELSE 0)
         + ColLo(a, b, k, i + 1)

RECURSIVE ColHi(_, _, _, _)
ColHi(a, b, k, i) ==
    IF i > Len(a) \/ i > k THEN 0
    ELSE (IF k + 1 - i <= Len(b) THEN (a[i] * b[k + 1 - i]) \div BASE ELSE 0)
         + ColHi(a, b, k, i + 1)

NMul(a, b) ==
    IF a = <<>> \/ b = <<>> THEN <<>>
    ELSE IF a = <<1>> THEN b
    ELSE IF b = <<1>> THEN a
    ELSE NNorm([k \in 1..(Len(a) + Len(b)) |->
                  ColLo(a, b, k, 1) + (IF k > 1 THEN ColHi(a, b, k - 1, 1) ELSE 0)])

RECURSIVE NCmpFrom(_, _, _)
NCmpFrom(a, b, k) ==
    IF k = 0 THEN 0
    ELSE IF a[k] > b[k] THEN 1
    ELSE IF a[k] < b[k] THEN -1
    ELSE NCmpFrom(a, b, k - 1)

NCmp(a, b) == IF Len(a) > Len(b) THEN 1
              ELSE IF Len(a) < Len(b) THEN -1
              ELSE NCmpFrom(a, b, Len(a))

RECURSIVE NOfInt(_)
NOfInt(i) == IF i = 0 THEN <<>> ELSE <<i % BASE>> \o NOfInt(i \div BASE)

(***************************************************************************)
(* Integers: sign and magnitude.                                           *)
(***************************************************************************)
ZZero == [s |-> 0, m |-> <<>>]

ZOf(i) == IF i = 0 THEN ZZero
          ELSE IF i > 0 THEN [s |-> 1, m |-> NOfInt(i)]
          ELSE [s |-> -1, m |-> NOfInt(-i)]

ZNeg(x) == [s |-> -x.s, m |-> x.m]

ZAdd(x, y) ==
    IF x.s = 0 THEN y
    ELSE IF y.s = 0 THEN x
    ELSE IF x.s = y.s THEN [s |-> x.s, m |-> NAdd(x.m, y.m)]
    ELSE LET c == NCmp(x.m, y.m)
         IN  IF c = 0 THEN ZZero
             ELSE IF c > 0 THEN [s |-> x.s, m |-> NSub(x.m, y.m)]
             ELSE [s |-> y.s, m |-> NSub(y.m, x.m)]

ZMul(x, y) == IF x.s = 0 \/ y.s = 0 THEN ZZero
              ELSE [s |-> x.s * y.s, m |-> NMul(x.m, y.m)]

\* integer times natural
ZMulN(x, n) == IF x.s = 0 THEN ZZero ELSE [s |-> x.s, m |-> NMul(x.m, n)]

ZCmp(x, y) == ZAdd(x, ZNeg(y)).s

(***************************************************************************)
(* Rationals n / (d * Grid^e), d > 0, e >= 0, not reduced; equality is     *)
(* QEq, not =.  Probabilities are multiples of 1/Grid, so the power of     *)
(* Grid in a denominator is kept as an exponent.                           *)
(***************************************************************************)
Grid == 12 * 125000

RECURSIVE GridPow(_)
GridPow(k) == IF k = 0 THEN <<1>> ELSE NMul(NOfInt(Grid), GridPow(k - 1))

QOf(i) == [n |-> ZOf(i), d |-> <<1>>, e |-> 0]

QFrac(a, b) == [n |-> ZOf(a), d |-> NOfInt(b), e |-> 0]

\* u / Grid
QUnits(u) == [n |-> ZOf(u), d |-> <<1>>, e |-> 1]

QZero == QOf(0)

QOne == QOf(1)

QSign(x) == x.n.s

QNeg(x) == [n |-> ZNeg(x.n), d |-> x.d, e |-> x.e]

QAbs(x) == [n |-> [s |-> x.n.s * x.n.s, m |-> x.n.m], d |-> x.d, e |-> x.e]

\* the numerator of x over the denominator d * Grid^e, for e >= x.e
Lift(x, e) == IF e = x.e THEN x.n ELSE ZMulN(x.n, GridPow(e - x.e))

QAdd(x, y) ==
    IF x.n.s = 0 THEN y
    ELSE IF y.n.s = 0 THEN x
    ELSE LET e == Max(x.e, y.e)
         IN  IF x.d = y.d
             THEN [n |-> ZAdd(Lift(x, e), Lift(y, e)), d |-> x.d, e |-> e]
             ELSE [n |-> ZAdd(ZMulN(Lift(x, e), y.d), ZMulN(Lift(y, e), x.d)),
                   d |-> NMul(x.d, y.d), e |-> e]

QSub(x, y) == QAdd(x, QNeg(y))

QMul(x, y) == IF x.n.s = 0 \/ y.n.s = 0 THEN QZero
              ELSE [n |-> ZMul(x.n, y.n), d |-> NMul(x.d, y.d), e |-> x.e + y.e]

\* x / y for y # 0
QDiv(x, y) ==
    IF x.n.s = 0 THEN QZero
    ELSE [n |-> [s |-> x.n.s * y.n.s,
                 m |-> NMul(NMul(x.n.m, y.d), GridPow(Max(y.e - x.e, 0)))],
          d |-> NMul(x.d, y.n.m),
          e |-> Max(x.e - y.e, 0)]

QCmp(x, y) ==
    LET e == Max(x.e, y.e)
    IN  IF x.d = y.d THEN ZCmp(Lift(x, e), Lift(y, e))
        ELSE ZCmp(ZMulN(Lift(x, e), y.d), ZMulN(Lift(y, e), x.d))

QEq(x, y) == QCmp(x, y) = 0

QSq(x) == QMul(x, x)

RECURSIVE QPow(_, _)
QPow(x, k) == IF k = 0 THEN QOne ELSE QMul(x, QPow(x, k - 1))

(***************************************************************************)
(* Values a * sqrt(r): r = 1 for a rational, r < 0 for an imaginary root.  *)
(***************************************************************************)
VOfQ(q) == [a |-> q, r |-> QOne]

VZero == VOfQ(QZero)

VIsZero(v) == QSign(v.a) = 0 \/ QSign(v.r) = 0

VIsNonNegReal(v) == VIsZero(v) \/ (QSign(v.r) > 0 /\ QSign(v.a) > 0)

VEq(v, w) ==
    IF VIsZero(v) \/ VIsZero(w) THEN VIsZero(v) /\ VIsZero(w)
    ELSE /\ QSign(v.r) = QSign(w.r)
         /\ QSign(v.a) = QSign(w.a)
         /\ QEq(QMul(QSq(v.a), v.r), QMul(QSq(w.a), w.r))

\* q * v
VScale(q, v) == [a |-> QMul(q, v.a), r |-> v.r]

\* x ** 0.5
Root(x) == [a |-> QOne, r |-> x]

\* v ** 3 = a^3 * r * sqrt(r)
VCube(v) == [a |-> QMul(QPow(v.a, 3), v.r), r |-> v.r]

\* v ** 4 = a^4 * r^2, a rational
VFourth(v) == QMul(QPow(v.a, 4), QSq(v.r))

\* q / v for v # 0: q / (a * sqrt(r)) = (q / (a * r)) * sqrt(r)
QDivV(q, v) == [a |-> QDiv(q, QMul(v.a, v.r)), r |-> v.r]

(***************************************************************************)
(* Python built-ins on a dict.                                             *)
(***************************************************************************)
RECURSIVE SumFrom(_, _)
SumFrom(seq, n) == IF n = 0 THEN QZero ELSE QAdd(SumFrom(seq, n - 1), seq[n])

\* sum(iterable)
sum(seq) == SumFrom(seq, Len(seq))

\* distribution.values()
values(dist) == [i \in 1..Len(dist) |-> dist[i].p]

Entry(x, p) == [x |-> x, p |-> p]

HasKey(d, k) == \E i \in 1..Len(d) : QEq(d[i].x, k)

\* d[k] = v: an existing key keeps its position and takes the new value
DictSet(d, k, v) ==
    IF HasKey(d, k)
    THEN [i \in 1..Len(d) |-> IF QEq(d[i].x, k) THEN Entry(d[i].x, v) ELSE d[i]]
    ELSE Append(d, Entry(k, v))

\* {K(x): p for x, p in d.items()}, built item by item
RECURSIVE DictFrom(_, _)
DictFrom(items, n) ==
    IF n = 0 THEN <<>>
    ELSE DictSet(DictFrom(items, n - 1), items[n].x, items[n].p)

(***************************************************************************)
(* Results of a call: a returned value, or a raised exception.             *)
(***************************************************************************)
Return(v) == [kind |-> "value", got |-> QZero, val |-> v]

\* raise ValueError(f"Probabilities must sum to 1, got {sum}")
Raise(got) == [kind |-> "ValueError", got |-> got, val |-> VZero]

ZeroDivision == [kind |-> "ZeroDivisionError", got |-> QZero, val |-> VZero]

Tolerance == QFrac(1, 1000000)

\* a check that forgets abs(): sum - 1.0 > 1e-6
invalid_noabs(dist) ==
    QCmp(QSub(sum(values(dist)), QOne), Tolerance) > 0

\* a check that is skipped once a call has succeeded
invalid_cached(dist) ==
    IF outcomes # <<>> /\ outcomes[Len(outcomes)] = "value" THEN FALSE
    ELSE QCmp(QAbs(QSub(sum(values(dist)), QOne)), Tolerance) > 0

\* abs(sum(distribution.values()) - 1.0) > 1e-6
invalid(dist) ==
    QCmp(QAbs(QSub(sum(values(dist)), QOne)), Tolerance) > 0

\* a sum that misses the first item
expected_value_skipfirst(dist) ==
    IF invalid(dist)
    THEN Raise(sum(values(dist)))
    ELSE Return(VOfQ(sum([i \in 1..(Len(dist) - 1) |->
                            QMul(dist[i + 1].x, dist[i + 1].p)])))

expected_value(dist) ==
    IF invalid(dist)
    THEN Raise(sum(values(dist)))
    ELSE Return(VOfQ(sum([i \in 1..Len(dist) |->
                            QMul(dist[i].x, dist[i].p)])))

\* E[X^2] - E[X], the square forgotten
variance_nosquare(dist) ==
    IF invalid(dist)
    THEN Raise(sum(values(dist)))
    ELSE LET difference(exp_value) ==
                 IF exp_value.kind # "value" THEN exp_value
                 ELSE LET exp_x_squared ==
                              sum([i \in 1..Len(dist) |->
                                     QMul(QSq(dist[i].x), dist[i].p)])
                      IN  Return(VOfQ(QSub(exp_x_squared, exp_value.val.a)))
         IN  difference(expected_value(dist))

variance(dist) ==
    IF invalid(dist)
    THEN Raise(sum(values(dist)))
    ELSE LET difference(exp_value) ==
                 IF exp_value.kind # "value" THEN exp_value
                 ELSE LET exp_x_squared ==
                              sum([i \in 1..Len(dist) |->
                                     QMul(QSq(dist[i].x), dist[i].p)])
                      IN  Return(VOfQ(QSub(exp_x_squared,
                                           QSq(exp_value.val.a))))
         IN  difference(expected_value(dist))

\* variance * 0.5 instead of variance ** 0.5
standard_deviation_half(dist) ==
    LET power(var) ==
            IF var.kind # "value" THEN var
            ELSE Return(VOfQ(QMul(var.val.a, QFrac(1, 2))))
    IN  power(variance(dist))

standard_deviation(dist) ==
    LET power(var) ==
            IF var.kind # "value" THEN var ELSE Return(Root(var.val.a))
    IN  power(variance(dist))

\* no sigma == 0 branch
skewness_nobranch(dist) ==
    IF invalid(dist)
    THEN Raise(sum(values(dist)))
    ELSE LET standardized(mu, sigma) ==
                 IF mu.kind # "value" THEN mu
                 ELSE IF sigma.kind # "value" THEN sigma
                 ELSE LET third_moment ==
                              sum([i \in 1..Len(dist) |->
                                     QMul(QPow(QSub(dist[i].x, mu.val.a), 3),
                                          dist[i].p)])
                          den == VCube(sigma.val)
                      IN  IF VIsZero(den) THEN ZeroDivision
                          ELSE Return(QDivV(third_moment, den))
         IN  standardized(expected_value(dist), standard_deviation(dist))

\* the third raw moment E[X^3] in place of E[(X - mu)^3]
skewness_uncentred(dist) ==
    IF invalid(dist)
    THEN Raise(sum(values(dist)))
    ELSE LET standardized(mu, sigma) ==
                 IF mu.kind # "value" THEN mu
                 ELSE IF sigma.kind # "value" THEN sigma
                 ELSE IF VIsZero(sigma.val) THEN Return(VZero)
                 ELSE LET third_moment ==
                              sum([i \in 1..Len(dist) |->
                                     QMul(QPow(dist[i].x, 3),
                                          dist[i].p)])
                          den == VCube(sigma.val)
                      IN  IF VIsZero(den) THEN ZeroDivision
                          ELSE Return(QDivV(third_moment, den))
         IN  standardized(expected_value(dist), standard_deviation(dist))

\* divides by sigma ** 2 in place of sigma ** 3
skewness_square(dist) ==
    IF invalid(dist)
    THEN Raise(sum(values(dist)))
    ELSE LET standardized(mu, sigma) ==
                 IF mu.kind # "value" THEN mu
                 ELSE IF sigma.kind # "value" THEN sigma
                 ELSE IF VIsZero(sigma.val) THEN Return(VZero)
                 ELSE LET third_moment ==
                              sum([i \in 1..Len(dist) |->
                                     QMul(QPow(QSub(dist[i].x, mu.val.a), 3),
                                          dist[i].p)])
                          den == QMul(QSq(sigma.val.a), sigma.val.r)
                      IN  IF QSign(den) = 0 THEN ZeroDivision
                          ELSE Return(VOfQ(QDiv(third_moment, den)))
         IN  standardized(expected_value(dist), standard_deviation(dist))

skewness(dist) ==
    IF invalid(dist)
    THEN Raise(sum(values(dist)))
    ELSE LET standardized(mu, sigma) ==
                 IF mu.kind # "value" THEN mu
                 ELSE IF sigma.kind # "value" THEN sigma
                 ELSE IF VIsZero(sigma.val) THEN Return(VZero)
                 ELSE LET third_moment ==
                              sum([i \in 1..Len(dist) |->
                                     QMul(QPow(QSub(dist[i].x, mu.val.a), 3),
                                          dist[i].p)])
                          den == VCube(sigma.val)
                      IN  IF VIsZero(den) THEN ZeroDivision
                          ELSE Return(QDivV(third_moment, den))
         IN  standardized(expected_value(dist), standard_deviation(dist))

\* excess kurtosis: the fourth standardized moment minus 3
kurtosis_excess(dist) ==
    IF invalid(dist)
    THEN Raise(sum(values(dist)))
    ELSE LET standardized(mu, sigma) ==
                 IF mu.kind # "value" THEN mu
                 ELSE IF sigma.kind # "value" THEN sigma
                 ELSE IF VIsZero(sigma.val) THEN Return(VZero)
                 ELSE LET fourth_moment ==
                              sum([i \in 1..Len(dist) |->
                                     QMul(QPow(QSub(dist[i].x, mu.val.a), 4),
                                          dist[i].p)])
                          den == VFourth(sigma.val)
                      IN  IF QSign(den) = 0 THEN ZeroDivision
                          ELSE Return(VOfQ(QSub(QDiv(fourth_moment, den), QOf(3))))
         IN  standardized(expected_value(dist), standard_deviation(dist))

kurtosis(dist) ==
    IF invalid(dist)
    THEN Raise(sum(values(dist)))
    ELSE LET standardized(mu, sigma) ==
                 IF mu.kind # "value" THEN mu
                 ELSE IF sigma.kind # "value" THEN sigma
                 ELSE IF VIsZero(sigma.val) THEN Return(VZero)
                 ELSE LET fourth_moment ==
                              sum([i \in 1..Len(dist) |->
                                     QMul(QPow(QSub(dist[i].x, mu.val.a), 4),
                                          dist[i].p)])
                          den == VFourth(sigma.val)
                      IN  IF QSign(den) = 0 THEN ZeroDivision
                          ELSE Return(VOfQ(QDiv(fourth_moment, den)))
         IN  standardized(expected_value(dist), standard_deviation(dist))

(***************************************************************************)
(* Inputs.  Probabilities lie on a grid of 1/Grid, fine enough to have     *)
(* sums that differ from 1 by less than the tolerance (one unit is about   *)
(* 6.7e-7) and by slightly more (two units).                               *)
(***************************************************************************)
MaxLen == 3

MaxScale == 2

MaxOutcomes == 3

MaxDrift == 2

Values == {-1, 0, 1, 5}

Probs == {0, Grid \div 4, Grid \div 2 - 1, Grid \div 2, Grid \div 2 + 1,
          (3 * Grid) \div 4, Grid, Grid + 1, Grid + Grid \div 100}

Scales == (-MaxScale..MaxScale) \ {0}

\* the dict literal {x: f[x] for x in S}, keys in increasing order
RECURSIVE Literal(_, _)
Literal(S, f) ==
    IF S = {} THEN <<>>
    ELSE LET x == CHOOSE y \in S : \A z \in S : y <= z
         IN  <<Entry(QOf(x), QUnits(f[x]))>> \o Literal(S \ {x}, f)

Inputs ==
    UNION {{Literal(S, f) : f \in [S -> Probs]} :
             S \in {T \in SUBSET Values : T # {} /\ Cardinality(T) <= MaxLen}}

\* main(): {1: 1/6, 2: 1/6, 3: 1/6, 4: 1/6, 5: 1/6, 6: 1/6}
Die == Literal(1..6, [x \in 1..6 |-> Grid \div 6])

\* {c * x: p for x, p in dist.items()}
ScaleDist(dist, c) ==
    DictFrom([i \in 1..Len(dist) |-> Entry(QMul(QOf(c), dist[i].x), dist[i].p)],
             Len(dist))

\* {(x - mu) ** 2: p for x, p in dist.items()}
SquaredDeviationDist(dist, mu) ==
    DictFrom([i \in 1..Len(dist) |-> Entry(QSq(QSub(dist[i].x, mu)), dist[i].p)],
             Len(dist))

(***************************************************************************)
(* State: the caller's dict, how the caller built it, the last call and    *)
(* its result, and the kinds of result the caller has seen, in order, a    *)
(* run of equal kinds noted once.                                          *)
(***************************************************************************)
NoCall == [op |-> "none", arg |-> <<>>, kind |-> "none", got |-> QZero, val |-> VZero]

Given == [how |-> "given", c |-> 1, from |-> <<>>]

Observe(kind) ==
    IF outcomes # <<>> /\ outcomes[Len(outcomes)] = kind
    THEN outcomes
    ELSE Append(outcomes, kind)

Call(op, r) ==
    /\ Len(Observe(r.kind)) <= MaxOutcomes
    /\ ret' = [op |-> op, arg |-> distribution, kind |-> r.kind,
               got |-> r.got, val |-> r.val]
    /\ outcomes' = Observe(r.kind)
    /\ UNCHANGED <<distribution, built>>

CallExpectedValue == Call("expected_value", expected_value(distribution))

CallVariance == Call("variance", variance(distribution))

CallStandardDeviation == Call("standard_deviation", standard_deviation(distribution))

CallSkewness == Call("skewness", skewness(distribution))

CallKurtosis == Call("kurtosis", kurtosis(distribution))

\* the caller builds the scaled distribution of a valid one
ScaleValues(c) ==
    /\ built.how = "given"
    /\ ret.op = "none"
    /\ ~invalid(distribution)
    /\ distribution' = ScaleDist(distribution, c)
    /\ built' = [how |-> "scaled", c |-> c, from |-> distribution]
    /\ UNCHANGED <<ret, outcomes>>

\* the caller builds the mapping of squared deviations of a valid one
SquaredDeviations ==
    /\ built.how = "given"
    /\ ret.op = "none"
    /\ expected_value(distribution).kind = "value"
    /\ distribution' = SquaredDeviationDist(distribution,
                                            expected_value(distribution).val.a)
    /\ built' = [how |-> "sqdev", c |-> 1, from |-> distribution]
    /\ UNCHANGED <<ret, outcomes>>

\* the caller assigns distribution[x] = 1/6 + k/Grid
Mutate(x, k) ==
    /\ distribution' = DictSet(distribution, QOf(x), QUnits(Grid \div 6 + k))
    /\ UNCHANGED <<built, ret, outcomes>>

Init ==
    /\ distribution \in Inputs \cup {Die}
    /\ built = Given
    /\ ret = NoCall
    /\ outcomes = <<>>

\* each behaviour of Spec applies one operation to the dict it has built
Next ==
    \/ ret.op = "none" /\ CallExpectedValue
    \/ ret.op = "none" /\ CallVariance
    \/ ret.op = "none" /\ CallStandardDeviation
    \/ ret.op = "none" /\ CallSkewness
    \/ ret.op = "none" /\ CallKurtosis
    \/ \E c \in Scales : ScaleValues(c)
    \/ SquaredDeviations

Spec == Init /\ [][Next]_vars

InitCalls ==
    /\ distribution = Die
    /\ built = Given
    /\ ret = NoCall
    /\ outcomes = <<>>

NextCalls ==
    \/ CallExpectedValue
    \/ CallVariance
    \/ CallStandardDeviation
    \/ CallSkewness
    \/ CallKurtosis
    \/ \E k \in -MaxDrift..MaxDrift : Mutate(6, k)

SpecCalls == InitCalls /\ [][NextCalls]_vars

(***************************************************************************)
(* Notions the properties are stated with.                                 *)
(***************************************************************************)
\* |s - 1| > 1e-6 for the sum s of the probabilities
OutsideTolerance(d) ==
    QCmp(QAbs(QSub(sum(values(d)), QOne)), QFrac(1, 1000000)) > 0

Entries(d) == {d[i] : i \in 1..Len(d)}

\* the sum of x * p over a set of pairs
RECURSIVE WeightedSum(_)
WeightedSum(S) ==
    IF S = {} THEN QZero
    ELSE LET e == CHOOSE e \in S : TRUE
         IN  QAdd(QMul(e.x, e.p), WeightedSum(S \ {e}))

Perms(n) == {f \in [1..n -> 1..n] : \A i, j \in 1..n : f[i] = f[j] => i = j}

Reorder(d, f) == [i \in 1..Len(d) |-> d[f[i]]]

\* sum of (x - mu)^k * p
CentralMoment(d, mu, k) ==
    sum([i \in 1..Len(d) |-> QMul(QPow(QSub(d[i].x, mu), k), d[i].p)])

\* the probability of outcome v, 0 when v is no key
ProbOf(d, v) ==
    IF HasKey(d, v) THEN (d[CHOOSE i \in 1..Len(d) : QEq(d[i].x, v)]).p ELSE QZero

\* p(mu + t) = p(mu - t) for every offset t
SymmetricAboutMean(d, mu) ==
    \A i \in 1..Len(d) : QEq(ProbOf(d, QSub(QMul(QOf(2), mu), d[i].x)), d[i].p)

Degenerate(d) == Len(d) = 1 /\ QEq(d[1].p, QOne)

Abs(i) == IF i < 0 THEN -i ELSE i

Sign(i) == IF i < 0 THEN -1 ELSE IF i > 0 THEN 1 ELSE 0

(***************************************************************************)
(* Properties.                                                             *)
(***************************************************************************)

\* C1: an operation raises the invalid-distribution error, carrying the
\* computed sum s, exactly when |s - 1| > 1e-6; otherwise it returns a value.
C1_ErrorIffOutsideTolerance ==
    ret.op # "none" =>
        /\ ret.kind \in {"value", "ValueError"}
        /\ (ret.kind = "ValueError") <=> OutsideTolerance(ret.arg)
        /\ ret.kind = "ValueError" => QEq(ret.got, sum(values(ret.arg)))

C1_Witness ==
    /\ ret.op = "standard_deviation"
    /\ ret.kind = "ValueError"
    /\ QEq(ret.got, QFrac(101, 100))

\* C2: on a valid distribution expected_value returns the sum of x * p over
\* the set of pairs, and the same value for every iteration order.
C2_ExpectedValueOrderIndependent ==
    (ret.op = "expected_value" /\ ret.kind = "value") =>
        /\ QEq(ret.val.r, QOne)
        /\ QEq(ret.val.a, WeightedSum(Entries(ret.arg)))
        /\ \A f \in Perms(Len(ret.arg)) :
              LET r == expected_value(Reorder(ret.arg, f))
              IN  r.kind = "value" /\ VEq(r.val, ret.val)

C2_Witness ==
    /\ ret.op = "expected_value"
    /\ ret.kind = "value"
    /\ Len(ret.arg) >= 3
    /\ ~VIsZero(ret.val)
    /\ ~QEq(sum(values(ret.arg)), QOne)

\* C3 as claimed, on distributions whose probabilities sum to exactly 1:
\* expected_value of the mapping of squared deviations returns the variance
\* of the distribution.
C3_SquaredDeviationsGiveVariance ==
    (built.how = "sqdev" /\ ret.op = "expected_value"
        /\ QEq(sum(values(built.from)), QOne)) =>
        /\ ret.kind = "value"
        /\ VEq(ret.val, variance(built.from).val)

\* C3 amended: when no two outcomes share a squared deviation, expected_value
\* of the mapping returns variance(d) + mu^2 * (s - 1), s the sum of the
\* probabilities; that is variance(d) when s = 1 or mu = 0.
C3_DistinctDeviations ==
    (built.how = "sqdev" /\ ret.op = "expected_value"
        /\ Len(distribution) = Len(built.from)) =>
        LET mu == expected_value(built.from).val.a
            s == sum(values(built.from))
            var == variance(built.from).val
        IN  /\ ret.kind = "value"
            /\ QEq(ret.val.r, QOne)
            /\ QEq(ret.val.a, QAdd(var.a, QMul(QSq(mu), QSub(s, QOne))))
            /\ (QEq(s, QOne) \/ QSign(mu) = 0) => VEq(ret.val, var)

C3_Witness ==
    /\ built.how = "sqdev"
    /\ ret.op = "expected_value"
    /\ ret.kind = "value"
    /\ Len(distribution) = Len(built.from)
    /\ Len(distribution) >= 2
    /\ ~QEq(sum(values(built.from)), QOne)
    /\ ~VEq(ret.val, variance(built.from).val)

\* C4: on {v: 1.0} expected_value is v, variance and standard_deviation are
\* 0, skewness and kurtosis return 0.0; whenever standard_deviation is 0,
\* skewness and kurtosis return 0.0; no call ends in a division by zero.
C4_ZeroVarianceReturnsZero ==
    /\ ret.kind # "ZeroDivisionError"
    /\ (ret.op # "none" /\ Degenerate(ret.arg)) =>
          /\ ret.kind = "value"
          /\ ret.op = "expected_value" => VEq(ret.val, VOfQ(ret.arg[1].x))
          /\ ret.op # "expected_value" => VIsZero(ret.val)
    /\ (ret.op \in {"skewness", "kurtosis"} /\ ret.kind # "ValueError"
          /\ VIsZero(standard_deviation(ret.arg).val)) =>
          ret.kind = "value" /\ VIsZero(ret.val)

C4_Witness ==
    /\ ret.op = "skewness"
    /\ Degenerate(ret.arg)
    /\ QEq(ret.arg[1].x, QOf(5))
    /\ ret.kind = "value"
    /\ VIsZero(ret.val)

\* C5: with a nonzero standard deviation kurtosis returns the raw fourth
\* standardized moment: kurtosis * variance^2 = sum of (x - mu)^4 * p; for
\* the fair die it is 2121/1225.
C5_RawKurtosis ==
    (ret.op = "kurtosis" /\ ret.kind = "value"
        /\ ~VIsZero(standard_deviation(ret.arg).val)) =>
        LET mu == expected_value(ret.arg).val.a
            var == variance(ret.arg).val.a
        IN  /\ QEq(ret.val.r, QOne)
            /\ QEq(QMul(ret.val.a, QSq(var)), CentralMoment(ret.arg, mu, 4))
            /\ ret.arg = Die => QEq(ret.val.a, QFrac(2121, 1225))

C5_Witness ==
    /\ ret.op = "kurtosis"
    /\ ret.arg = Die
    /\ ret.kind = "value"
    /\ QEq(ret.val.a, QFrac(2121, 1225))

\* C6: skewness of a valid distribution that is symmetric about its mean is 0.
C6_SymmetricSkewnessZero ==
    (ret.op = "skewness" /\ ret.kind = "value"
        /\ SymmetricAboutMean(ret.arg, expected_value(ret.arg).val.a)) =>
        VIsZero(ret.val)

C6_Witness ==
    /\ ret.op = "skewness"
    /\ ret.kind = "value"
    /\ Len(ret.arg) = 3
    /\ \A i \in 1..3 : QSign(ret.arg[i].p) > 0
    /\ ~QEq(sum(values(ret.arg)), QOne)
    /\ SymmetricAboutMean(ret.arg, expected_value(ret.arg).val.a)
    /\ VIsZero(ret.val)

C8_ScaleInvariant ==
    (built.how = "scaled" /\ ret.kind = "value"
        /\ QEq(sum(values(built.from)), QOne)) =>
        /\ ret.op = "skewness" => VEq(ret.val, skewness(built.from).val)
        /\ ret.op = "kurtosis" => VEq(ret.val, kurtosis(built.from).val)

\* C8 amended: kurtosis(d_c) = kurtosis(d), and skewness(d_c) is skewness(d)
\* for c > 0 and -skewness(d) for c < 0.
C8_SkewnessSignOfScale ==
    (built.how = "scaled" /\ ret.kind = "value") =>
        /\ ret.op = "skewness" =>
              VEq(ret.val, VScale(QOf(Sign(built.c)), skewness(built.from).val))
        /\ ret.op = "kurtosis" => VEq(ret.val, kurtosis(built.from).val)

C8_Witness ==
    /\ built.how = "scaled"
    /\ built.c < 0
    /\ ret.op = "skewness"
    /\ ret.kind = "value"
    /\ ~VIsZero(ret.val)
    /\ QSign(ret.val.r) > 0

\* C9: every call validates the distribution as it is at that call and
\* leaves it unchanged: a step that records a call records the current
\* distribution, fails exactly when its sum is outside the tolerance, and
\* reports that sum.
C9_EveryCallValidates ==
    [][(ret' # ret \/ outcomes' # outcomes) =>
          /\ distribution' = distribution
          /\ ret'.arg = distribution
          /\ (ret'.kind = "ValueError") <=> OutsideTolerance(distribution)
          /\ ret'.kind # "ValueError" => ret'.kind = "value"
          /\ ret'.kind = "ValueError" =>
                QEq(ret'.got, sum(values(distribution)))]_vars

\* a success, then a failure after a mutation, then a success after the
\* mutation back
C9_Witness ==
    /\ outcomes = <<"value", "ValueError", "value">>
    /\ ret.kind = "value"
    /\ ret.arg = Die
    /\ distribution = Die

\* C10 as claimed: on a valid distribution with non-negative probabilities
\* variance is >= 0 and standard_deviation is a non-negative real.
C10_VarianceNonNegative ==
    (ret.kind = "value" /\ \A i \in 1..Len(ret.arg) : QSign(ret.arg[i].p) >= 0) =>
        /\ ret.op = "variance" => QSign(ret.val.a) >= 0
        /\ ret.op = "standard_deviation" => VIsNonNegReal(ret.val)

====
